---- MODULE Spec2Model ----
(***************************************************************************)
(* flask-rest-jsonapi: the querystring interpreter (querystring.py) and    *)
(* the schema projection engine (schema.py).                               *)
(*                                                                         *)
(* A Python str is a sequence of one-character strings, so that split,     *)
(* index, slicing, startswith and replace are computed as Python computes  *)
(* them.  A Python dict is the sequence of its items in insertion order.   *)
(***************************************************************************)
EXTENDS Integers, Sequences, FiniteSets, TLC

VARIABLES
    qs,      \* QueryStringManager.qs: the raw mapping, items in insertion order
    config,  \* current_app.config: the options that are set (unset = not in DOMAIN)
    ret,     \* the last call and its outcome: [op, arg, exc, param, val]
    schema_kwargs,  \* the resource class's get_schema_kwargs dict, kept between requests
    hash_order,     \* the order in which this process iterates a set of field names
    class_fields,   \* per schema class, the nested schemas substituted on the
                    \* class's own relationship fields (_declared_fields)
    served,         \* how many requests the resource has served, up to MaxServed
    threads,        \* the requests that run compute_schema at the same time, each
                    \* with its raw mapping, its position and its local values
    request,        \* flask.request of a relationship route: [path, json]
    data_layer      \* the calls the relationship handler made to its hooks and
                    \* to the data layer, in order

vars == <<qs, config, ret, schema_kwargs, hash_order, class_fields, served, threads,
          request, data_layer>>

\* the variables of the relationship routes
relationship_vars == <<request, data_layer>>

\* the variables that the querystring calls and the projection of one
\* request leave alone
others == <<class_fields, served, threads, relationship_vars>>

----------------------------------------------------------------------------
(* Bounds of the model *)

MaxValueLen == 4     \* longest value of a sort / include / group parameter
MaxParams == 2       \* most bracket parameters in one raw mapping
MaxDepthOption == 2  \* largest MAX_INCLUDE_DEPTH that is configured
MaxIncludeLen == 5   \* longest raw include value of a projection request
MaxServed == 2       \* served requests are counted up to this number
MaxElements == 2     \* most elements of a `data` list of a relationship payload

----------------------------------------------------------------------------
(* Python str *)

StringsUpTo(A, n) == UNION {[1..k -> A] : k \in 0..n}

Contains(s, c) == \E i \in 1..Len(s) : s[i] = c

\* s.index(c), 0-based; the caller raises ValueError when c is not in s
Index(s, c) == (CHOOSE i \in 1..Len(s) : s[i] = c /\ \A j \in 1..(i-1) : s[j] # c) - 1

\* s[a:b] for 0 <= a, 0 <= b
Slice(s, a, b) ==
    LET e == IF b > Len(s) THEN Len(s) ELSE b
    IN IF a >= e THEN <<>> ELSE SubSeq(s, a + 1, e)

StartsWith(s, p) == Len(s) >= Len(p) /\ SubSeq(s, 1, Len(p)) = p

\* s.split(c): '' splits to ['']
RECURSIVE Split(_, _)
Split(s, c) ==
    IF ~Contains(s, c) THEN <<s>>
    ELSE <<Slice(s, 0, Index(s, c))>> \o Split(Slice(s, Index(s, c) + 1, Len(s)), c)

\* c.join(parts)
RECURSIVE Join(_, _)
Join(parts, c) ==
    IF Len(parts) = 0 THEN <<>>
    ELSE IF Len(parts) = 1 THEN parts[1]
    ELSE parts[1] \o <<c>> \o Join(Tail(parts), c)

\* s.replace(c, '')
Remove(s, c) == SelectSeq(s, LAMBDA x : x # c)

Digits == {"0", "1", "2"}

DigitValue(c) == IF c = "0" THEN 0 ELSE IF c = "1" THEN 1 ELSE 2

\* int(s) succeeds: an optional sign, then one or more digits (the values of
\* the model hold no whitespace and no underscore)
IntSyntax(s) ==
    LET body == IF Len(s) > 0 /\ s[1] \in {"-", "+"} THEN Tail(s) ELSE s
    IN Len(body) > 0 /\ \A i \in 1..Len(body) : body[i] \in Digits

RECURSIVE DigitsValue(_)
DigitsValue(s) ==
    IF Len(s) = 0 THEN 0
    ELSE 10 * DigitsValue(SubSeq(s, 1, Len(s) - 1)) + DigitValue(s[Len(s)])

\* int(s), for IntSyntax(s)
IntValue(s) ==
    IF s[1] = "-" THEN 0 - DigitsValue(Tail(s))
    ELSE IF s[1] = "+" THEN DigitsValue(Tail(s))
    ELSE DigitsValue(s)

----------------------------------------------------------------------------
(* Python dict: a sequence of items [k, v], keys distinct *)

HasKey(d, k) == \E i \in 1..Len(d) : d[i].k = k

Lookup(d, k) == d[CHOOSE i \in 1..Len(d) : d[i].k = k].v

\* d.update({k: v}): a present key keeps its position
Update(d, k, v) ==
    IF HasKey(d, k)
    THEN [i \in 1..Len(d) |-> IF d[i].k = k THEN [k |-> k, v |-> v] ELSE d[i]]
    ELSE Append(d, [k |-> k, v |-> v])

Keys(d) == {d[i].k : i \in 1..Len(d)}

----------------------------------------------------------------------------
(* Values and outcomes *)

\* a str value and a list-of-str value of a parsed parameter
StrValue(s) == [list |-> FALSE, items |-> <<s>>]
ListValue(parts) == [list |-> TRUE, items |-> parts]

\* None, and a returned sequence
NoneValue == [none |-> TRUE, items |-> <<>>]
SomeValue(parts) == [none |-> FALSE, items |-> parts]

Return(v) == [exc |-> "none", param |-> <<>>, val |-> v]
Raise(e, p) == [exc |-> e, param |-> p, val |-> <<>>]

----------------------------------------------------------------------------
(* The literal strings of querystring.py *)

PAGE == <<"p", "a", "g", "e">>
FIELDS == <<"f", "i", "e", "l", "d", "s">>
NUMBER == <<"n", "u", "m", "b", "e", "r">>
SIZE == <<"s", "i", "z", "e">>
SORT == <<"s", "o", "r", "t">>
INCLUDE == <<"i", "n", "c", "l", "u", "d", "e">>
GROUP == <<"g", "r", "o", "u", "p">>

Bracketed(name, key) == name \o <<"[">> \o key \o <<"]">>

----------------------------------------------------------------------------
(* QueryStringManager._get_key_values *)

\* lines 47-49: the text from after the first `[` up to the first `]`
item_key(key) == Slice(key, Index(key, "[") + 1, Index(key, "]"))

\* lines 51-54, with every value split (a scalar becomes a one-element list)
item_value_always_split(value) == ListValue(Split(value, ","))

\* lines 51-54: a value with a comma is split, any other is kept as it is
item_value(value) ==
    IF Contains(value, ",") THEN ListValue(Split(value, ",")) ELSE StrValue(value)

RECURSIVE get_key_values_loop(_, _, _, _)
get_key_values_loop(q, name, i, results) ==
    IF i > Len(q) THEN Return(results)
    ELSE LET key == q[i].k
             value == q[i].v
         IN IF ~StartsWith(key, name)
            THEN get_key_values_loop(q, name, i + 1, results)
            ELSE IF ~Contains(key, "[") \/ ~Contains(key, "]")
            THEN Raise("BadRequest", key)   \* key.index raised ValueError
            ELSE get_key_values_loop(q, name, i + 1,
                                     Update(results, item_key(key), item_value(value)))

get_key_values(q, name) == get_key_values_loop(q, name, 1, <<>>)

----------------------------------------------------------------------------
(* QueryStringManager.grouping *)

grouping(q) ==
    IF HasKey(q, GROUP)
    THEN Return(SomeValue(Split(Lookup(q, GROUP), ",")))
    ELSE Return(NoneValue)

----------------------------------------------------------------------------
(* QueryStringManager.pagination *)

\* the loop over result.items(): the first item that fails decides
RECURSIVE pagination_check(_, _)
pagination_check(result, i) ==
    IF i > Len(result) THEN Return(result)
    ELSE LET key == result[i].k
             value == result[i].v
         IN IF key \notin {NUMBER, SIZE}
            THEN Raise("BadRequest", PAGE)
            ELSE IF value.list
            THEN Raise("TypeError", <<>>)   \* int(list) is not a ValueError
            ELSE IF ~IntSyntax(value.items[1])
            THEN Raise("BadRequest", Bracketed(PAGE, key))
            ELSE pagination_check(result, i + 1)

\* current_app.config.get('ALLOW_DISABLE_PAGINATION', True), with the default
\* of an unset option FALSE
allow_disable_pagination_default_false(cfg) ==
    IF "ALLOW_DISABLE_PAGINATION" \in DOMAIN cfg
    THEN cfg["ALLOW_DISABLE_PAGINATION"]
    ELSE FALSE

\* current_app.config.get('ALLOW_DISABLE_PAGINATION', True)
allow_disable_pagination(cfg) ==
    IF "ALLOW_DISABLE_PAGINATION" \in DOMAIN cfg
    THEN cfg["ALLOW_DISABLE_PAGINATION"]
    ELSE TRUE

\* the comparison with MAX_PAGE_SIZE, with the maximum itself refused
above_max_page_size_inclusive(size, max_page_size) == size >= max_page_size

\* int(result['size']) > current_app.config['MAX_PAGE_SIZE']
above_max_page_size(size, max_page_size) == size > max_page_size

pagination(q, cfg) ==
    LET parsed == get_key_values(q, PAGE)
    IN IF parsed.exc # "none" THEN parsed
       ELSE LET checked == pagination_check(parsed.val, 1)
                result == parsed.val
                size == IF HasKey(result, SIZE)
                        THEN IntValue(Lookup(result, SIZE).items[1])
                        ELSE 1
            IN IF checked.exc # "none" THEN checked
               ELSE IF /\ allow_disable_pagination(cfg) = FALSE
                       /\ size = 0
               THEN Raise("BadRequest", Bracketed(PAGE, SIZE))
               ELSE IF /\ "MAX_PAGE_SIZE" \in DOMAIN cfg
                       /\ HasKey(result, SIZE)
                       /\ above_max_page_size(size, cfg["MAX_PAGE_SIZE"])
               THEN Raise("BadRequest", Bracketed(PAGE, SIZE))
               ELSE Return(result)

----------------------------------------------------------------------------
(* QueryStringManager.fields *)

fields(q) ==
    LET parsed == get_key_values(q, FIELDS)
    IN IF parsed.exc # "none" THEN parsed
       ELSE Return([i \in 1..Len(parsed.val) |->
                      [k |-> parsed.val[i].k,
                       v |-> IF parsed.val[i].v.list
                             THEN parsed.val[i].v
                             ELSE ListValue(<<parsed.val[i].v.items[1]>>)]])

----------------------------------------------------------------------------
(* QueryStringManager.sorting *)

sort_entry(sort_field) ==
    [field |-> Remove(sort_field, "-"),
     order |-> IF StartsWith(sort_field, <<"-">>) THEN "desc" ELSE "asc"]

sorting(q) ==
    IF HasKey(q, SORT) /\ Lookup(q, SORT) # <<>>
    THEN LET tokens == Split(Lookup(q, SORT), ",")
         IN Return([i \in 1..Len(tokens) |-> sort_entry(tokens[i])])
    ELSE Return(<<>>)

----------------------------------------------------------------------------
(* QueryStringManager.include *)

\* the loop of line 193 runs over include_param itself: over the characters
\* of the raw string (over nothing when the parameter is absent)
include_too_deep(include_param, max_depth) ==
    \E i \in 1..Len(include_param) :
        Len(Split(<<include_param[i]>>, ".")) > max_depth

include(q, cfg) ==
    LET include_param == IF HasKey(q, INCLUDE) THEN Lookup(q, INCLUDE) ELSE <<>>
    IN IF /\ "MAX_INCLUDE_DEPTH" \in DOMAIN cfg
          /\ include_too_deep(include_param, cfg["MAX_INCLUDE_DEPTH"])
       THEN Raise("InvalidInclude", <<>>)
       ELSE IF include_param # <<>>
       THEN Return(Split(include_param, ","))
       ELSE Return(<<>>)

----------------------------------------------------------------------------
(* The schema classes of the application: A (type `a`) declares id, n and   *)
(* the relationships r (to B) and s (to A); B (type `b`) declares id, n and *)
(* the relationship r (to A).  Relationships name their schema by class     *)
(* name, resolved through the class registry.                               *)

ID == <<"i", "d">>

Attribute(name) == [name |-> name, relationship |-> FALSE, schema |-> ""]
Relationship(name, cls) == [name |-> name, relationship |-> TRUE, schema |-> cls]

SchemaClasses ==
    ("A" :> [type_ |-> <<"a">>,
             declared |-> <<Attribute(ID), Attribute(<<"n">>),
                            Relationship(<<"r">>, "B"), Relationship(<<"s">>, "A")>>])
    @@
    ("B" :> [type_ |-> <<"b">>,
             declared |-> <<Attribute(ID), Attribute(<<"n">>),
                            Relationship(<<"r">>, "A")>>])

\* the schema class of the resource
RootSchema == "A"

declared_fields(cls) == SchemaClasses[cls].declared

DeclaredNames(cls) == {declared_fields(cls)[i].name : i \in 1..Len(declared_fields(cls))}

DeclaredField(cls, name) ==
    declared_fields(cls)[CHOOSE i \in 1..Len(declared_fields(cls)) :
                            declared_fields(cls)[i].name = name]

FieldNames == UNION {DeclaredNames(cls) : cls \in DOMAIN SchemaClasses}

----------------------------------------------------------------------------
(* Python tuples and sets of field names *)

SetOf(t) == {t[i] : i \in 1..Len(t)}

\* tuple(a_set): the members in the order this process iterates them
TupleOfSet(S, order) == SelectSeq(order, LAMBDA x : x \in S)

\* a kwargs dict with key set (a dict of keyword arguments is a function on
\* the keywords it holds)
SetItem(kw, key, value) == (key :> value) @@ kw

----------------------------------------------------------------------------
(* compute_schema *)

\* line 63 / 97: include_path.split('.')[0]
first_segment(include_path) == Split(include_path, ".")[1]

\* line 74, keeping the last segment only
include_suffix_last_segment(include_path) ==
    Split(include_path, ".")[Len(Split(include_path, "."))]

\* line 74: '.'.join(include_path.split('.')[1:])
include_suffix(include_path) == Join(Tail(Split(include_path, ".")), ".")

\* lines 65-68 without the elif: only an absent field is refused
invalid_include_absent_only(schema_cls, field) == field \notin DeclaredNames(schema_cls)

\* lines 65-68: the field is not declared, or is declared and no relationship
invalid_include(schema_cls, field) ==
    \/ field \notin DeclaredNames(schema_cls)
    \/ ~DeclaredField(schema_cls, field).relationship

\* lines 62-74: the loop that validates the paths and collects include_data
\* and related_includes; on a raise the include_data collected so far stays
\* in the caller's kwargs
RECURSIVE collect_includes(_, _, _, _, _)
collect_includes(schema_cls, include_paths, i, include_data, related_includes) ==
    IF i > Len(include_paths)
    THEN [exc |-> "none", include_data |-> include_data,
          related_includes |-> related_includes]
    ELSE LET include_path == include_paths[i]
             field == first_segment(include_path)
             started == IF HasKey(related_includes, field) THEN related_includes
                        ELSE Update(related_includes, field, <<>>)
             extended == IF Contains(include_path, ".")
                         THEN Update(started, field,
                                     Append(Lookup(started, field),
                                            include_suffix(include_path)))
                         ELSE started
         IN IF invalid_include(schema_cls, field)
            THEN [exc |-> "InvalidInclude", include_data |-> include_data,
                  related_includes |-> related_includes]
            ELSE collect_includes(schema_cls, include_paths, i + 1,
                                  Append(include_data, field), extended)

\* lines 77-78: id is appended to a given `only` that lacks it
only_with_id(schema_kwargs_) ==
    IF "only" \in DOMAIN schema_kwargs_ /\ ID \notin SetOf(schema_kwargs_["only"])
    THEN SetItem(schema_kwargs_, "only", Append(schema_kwargs_["only"], ID))
    ELSE schema_kwargs_

\* the fields of a schema instance that the projection reads and writes;
\* `related` holds the nested schemas found substituted on the relationship
\* fields of its declared_fields, `own_fields` tells that these field
\* objects belong to the instance and not to the class
schema_instance(schema_cls, schema_kwargs_, cls_fields, own_fields) ==
    [cls |-> schema_cls,
     include_data |-> schema_kwargs_["include_data"],
     only |-> IF "only" \in DOMAIN schema_kwargs_
              THEN SomeValue(schema_kwargs_["only"]) ELSE NoneValue,
     many |-> IF "many" \in DOMAIN schema_kwargs_ THEN schema_kwargs_["many"] ELSE FALSE,
     related |-> cls_fields[schema_cls],
     own_fields |-> own_fields]

\* line 81 with an instance whose declared_fields are the field objects of
\* the class themselves
new_schema_sharing_fields(schema_cls, schema_kwargs_, cls_fields) ==
    schema_instance(schema_cls, schema_kwargs_, cls_fields, FALSE)

\* line 81: Schema.__init__ gives the instance declared_fields of its own, a
\* copy of the class's _declared_fields as they are at that moment
new_schema(schema_cls, schema_kwargs_, cls_fields) ==
    schema_instance(schema_cls, schema_kwargs_, cls_fields, TRUE)

\* lines 84-92 without lines 91-92: id is not added again
sparse_fieldset_without_id(schema, qs_fields, order) ==
    LET type_ == SchemaClasses[schema.cls].type_
        requested == SetOf(Lookup(qs_fields, type_).items)
        tmp_only == DeclaredNames(schema.cls) \cap requested
        kept == IF ~schema.only.none /\ schema.only.items # <<>>
                THEN tmp_only \cap SetOf(schema.only.items) ELSE tmp_only
    IN IF HasKey(qs_fields, type_)
       THEN [schema EXCEPT !.only = SomeValue(TupleOfSet(kept, order))]
       ELSE schema

\* lines 84-92: the sparse fieldset of the schema's type
sparse_fieldset(schema, qs_fields, order) ==
    LET type_ == SchemaClasses[schema.cls].type_
        requested == SetOf(Lookup(qs_fields, type_).items)
        tmp_only == DeclaredNames(schema.cls) \cap requested
        kept == IF ~schema.only.none /\ schema.only.items # <<>>
                THEN tmp_only \cap SetOf(schema.only.items) ELSE tmp_only
        only == TupleOfSet(kept, order)
    IN IF HasKey(qs_fields, type_)
       THEN [schema EXCEPT !.only = SomeValue(IF ID \in kept THEN only
                                               ELSE Append(only, ID))]
       ELSE schema

\* An include argument of None and an empty list are both falsy and are both
\* the empty sequence here (`related_includes[field] or None`, line 109).
RECURSIVE compute_schema(_, _, _, _, _, _)
RECURSIVE expand_includes(_, _, _, _, _, _, _)

\* line 110: relation_field.__dict__['_Relationship__schema'] = related_schema
\* writes the field object that schema.declared_fields[field] refers to: the
\* class's descriptor only if the instance has no field objects of its own
substitute(schema, field, related_schema, cls_fields) ==
    IF schema.own_fields THEN cls_fields
    ELSE [cls_fields EXCEPT ![schema.cls] = Update(@, field, related_schema)]

\* lines 96-110: every path's relationship gets its nested schema computed
\* and substituted; a relationship met again is already an instance, whose
\* class and `many` are taken over
expand_includes(schema, include_paths, i, related_includes, q, order, cls_fields) ==
    IF i > Len(include_paths) THEN Return(schema) @@ [class_fields |-> cls_fields]
    ELSE LET field == first_segment(include_paths[i])
             relation_field == DeclaredField(schema.cls, field)
             substituted == HasKey(schema.related, field)
             related_schema_cls == IF substituted THEN Lookup(schema.related, field).cls
                                   ELSE relation_field.schema
             related_schema_kwargs == IF substituted
                                      THEN ("many" :> Lookup(schema.related, field).many)
                                      ELSE <<>>
             related_schema == compute_schema(related_schema_cls, related_schema_kwargs,
                                              q, Lookup(related_includes, field), order,
                                              cls_fields)
         IN IF ~relation_field.relationship
            THEN Raise("KeyError", <<>>)   \* no '_Relationship__schema' in __dict__
                 @@ [class_fields |-> cls_fields]
            ELSE IF related_schema.exc # "none"
            THEN Raise(related_schema.exc, related_schema.param)
                 @@ [class_fields |-> related_schema.class_fields]
            ELSE expand_includes([schema EXCEPT !.related =
                                      Update(@, field, related_schema.val)],
                                 include_paths, i + 1, related_includes, q, order,
                                 substitute(schema, field, related_schema.val,
                                            related_schema.class_fields))

\* the outcome, `kwargs`: default_kwargs as the call leaves it, and
\* `class_fields`: the classes' relationship fields as the call leaves them
compute_schema(schema_cls, default_kwargs, q, include_paths, order, cls_fields) ==
    LET collected == collect_includes(schema_cls, include_paths, 1, <<>>, <<>>)
        with_include_data == SetItem(default_kwargs, "include_data",
                                     collected.include_data)
        schema_kwargs_ == only_with_id(with_include_data)
        qs_fields == fields(q)
        schema == sparse_fieldset(new_schema(schema_cls, schema_kwargs_, cls_fields),
                                  qs_fields.val, order)
        expanded == expand_includes(schema, include_paths, 1,
                                    collected.related_includes, q, order, cls_fields)
    IN IF collected.exc # "none"
       THEN [exc |-> collected.exc, param |-> <<>>, val |-> <<>>,
             kwargs |-> with_include_data, class_fields |-> cls_fields]
       ELSE IF qs_fields.exc # "none"
       THEN [exc |-> qs_fields.exc, param |-> qs_fields.param, val |-> <<>>,
             kwargs |-> schema_kwargs_, class_fields |-> cls_fields]
       ELSE [exc |-> expanded.exc, param |-> expanded.param, val |-> expanded.val,
             kwargs |-> schema_kwargs_, class_fields |-> expanded.class_fields]

----------------------------------------------------------------------------
(* The relationship resolver: get_relationships, get_model_field and         *)
(* ResourceRelationship._get_relationship_data                               *)

\* a declared field of the resource's schema with what the resolver reads:
\* whether it is a Relationship, its `attribute` (None or a name), and a
\* relationship's type_ and id_field
ResourceField(name, relationship, attribute, type_, id_field) ==
    [name |-> name, relationship |-> relationship, attribute |-> attribute,
     type_ |-> type_, id_field |-> id_field]

\* self.schema of the resource: id and n are attributes (n stored as m), r
\* is a relationship stored under its own name, c one stored as x
ResourceSchema ==
    [declared |->
        <<ResourceField(ID, FALSE, NoneValue, <<>>, <<>>),
          ResourceField(<<"n">>, FALSE, SomeValue(<<"m">>), <<>>, <<>>),
          ResourceField(<<"r">>, TRUE, NoneValue, <<"b">>, ID),
          ResourceField(<<"c">>, TRUE, SomeValue(<<"x">>), <<"c">>, <<"k">>)>>]

\* schema._declared_fields.get(field): the positions of the field (one or none)
declared_positions(schema, field) ==
    {i \in 1..Len(schema.declared) : schema.declared[i].name = field}

declared_field(schema, field) ==
    schema.declared[CHOOSE i \in declared_positions(schema, field) : TRUE]

\* get_model_field without the attribute override: always the field's name
get_model_field_ignoring_attribute(schema, field) ==
    IF declared_positions(schema, field) = {}
    THEN Raise("Exception", <<>>)
    ELSE Return(field)

\* get_model_field
get_model_field(schema, field) ==
    IF declared_positions(schema, field) = {}
    THEN Raise("Exception", <<>>)
    ELSE IF ~declared_field(schema, field).attribute.none
    THEN Return(declared_field(schema, field).attribute.items)
    ELSE Return(field)

\* get_relationships(schema): the keys of the Relationship fields, in order
get_relationships(schema) ==
    LET relationships == SelectSeq(schema.declared, LAMBDA f : f.relationship)
    IN [i \in 1..Len(relationships) |-> relationships[i].name]

\* _get_relationship_data
get_relationship_data(path) ==
    LET relationship_field == Split(path, "/")[Len(Split(path, "/"))]
        model_relationship_field == get_model_field(ResourceSchema, relationship_field)
    IN IF relationship_field \notin SetOf(get_relationships(ResourceSchema))
       THEN Raise("RelationNotFound", <<>>)
       ELSE IF model_relationship_field.exc # "none"
       THEN model_relationship_field
       ELSE Return([relationship_field |-> relationship_field,
                    model_relationship_field |-> model_relationship_field.val,
                    related_type_ |-> declared_field(ResourceSchema, relationship_field).type_,
                    related_id_field |->
                        declared_field(ResourceSchema, relationship_field).id_field])

----------------------------------------------------------------------------
(* ResourceRelationship.post / patch / delete *)

\* a parsed JSON value as the handlers see it: a resource identifier object
\* (with or without its members type and id), an array, null, or a number
\* (any value that has no members and supports no `in`)
Json(kind, has_type, type_, has_id, items) ==
    [kind |-> kind, has_type |-> has_type, type_ |-> type_, has_id |-> has_id,
     items |-> items]
Identifier(has_type, type_, has_id) == Json("object", has_type, type_, has_id, <<>>)
JsonArray(items) == Json("array", FALSE, <<>>, FALSE, items)
JsonNull == Json("null", FALSE, <<>>, FALSE, <<>>)
JsonNumber == Json("number", FALSE, <<>>, FALSE, <<>>)

\* request.get_json(): None (no body), a number, or an object with or
\* without the member `data`
Body(kind, has_data, data) == [kind |-> kind, has_data |-> has_data, data |-> data]

\* the checks of a dict: type present, id present, type equal to the
\* relationship's related type
check_identifier(obj, related_type_) ==
    IF ~obj.has_type THEN Raise("BadRequest", <<"data", "type">>)
    ELSE IF ~obj.has_id THEN Raise("BadRequest", <<"data", "id">>)
    ELSE IF obj.type_ # related_type_ THEN Raise("InvalidType", <<"data", "type">>)
    ELSE Return(<<>>)

\* the loop over a list: `'type' not in obj` of an obj that is no container
\* is a TypeError
RECURSIVE check_elements(_, _, _)
check_elements(items, i, related_type_) ==
    IF i > Len(items) THEN Return(<<>>)
    ELSE IF items[i].kind = "number" THEN Raise("TypeError", <<>>)
    ELSE IF check_identifier(items[i], related_type_).exc # "none"
    THEN check_identifier(items[i], related_type_)
    ELSE check_elements(items, i + 1, related_type_)

\* the validation of the payload: a `data` that is neither a dict nor a list
\* passes unchecked
check_payload(json_data, related_type_) ==
    IF json_data.kind = "number" THEN Raise("TypeError", <<>>)   \* 'data' not in 5
    ELSE IF ~json_data.has_data THEN Raise("BadRequest", <<"data">>)
    ELSE IF json_data.data.kind = "object"
    THEN check_identifier(json_data.data, related_type_)
    ELSE IF json_data.data.kind = "array"
    THEN check_elements(json_data.data.items, 1, related_type_)
    ELSE Return(<<>>)

\* the body shared by post, patch and delete: the outcome and the calls made
\* to the hook and to the data layer, whose answer `updated` is kept with
\* the call
relationship_handler(before_hook, method, message, req, updated) ==
    LET json_data == IF req.json.kind = "none" THEN Body("object", FALSE, JsonNull)
                     ELSE req.json
        resolved == get_relationship_data(req.path)
        checked == check_payload(json_data, resolved.val.related_type_)
    IN IF resolved.exc # "none" THEN resolved @@ [calls |-> <<>>]
       ELSE IF checked.exc # "none" THEN checked @@ [calls |-> <<>>]
       ELSE Return([result |-> IF updated = FALSE THEN "" ELSE message,
                    status_code |-> IF updated = FALSE THEN 204 ELSE 200])
            @@ [calls |-> <<[op |-> before_hook, json_data |-> json_data,
                             model_relationship_field |-> <<>>,
                             related_id_field |-> <<>>, updated |-> FALSE],
                            [op |-> method, json_data |-> json_data,
                             model_relationship_field |->
                                 resolved.val.model_relationship_field,
                             related_id_field |-> resolved.val.related_id_field,
                             updated |-> updated]>>]

post(req, updated) ==
    relationship_handler("before_post", "create_relationship",
                         "Relationship successfully created", req, updated)

patch(req, updated) ==
    relationship_handler("before_patch", "update_relationship",
                         "Relationship successfully updated", req, updated)

delete(req, updated) ==
    relationship_handler("before_delete", "delete_relationship",
                         "Relationship successfully updated", req, updated)

----------------------------------------------------------------------------
(* The requests of the model *)

PlainChars == {"a", "-", ",", "."}
PlainKeys == {SORT, INCLUDE, GROUP}

\* a raw mapping with at most one of sort / include / group
PlainMappings ==
    {<<>>} \cup {<<[k |-> key, v |-> value]>> :
                    key \in PlainKeys, value \in StringsUpTo(PlainChars, MaxValueLen)}

PlainConfigs ==
    {<<>>} \cup {("MAX_INCLUDE_DEPTH" :> n) : n \in 1..MaxDepthOption}

\* raw keys that start with `page`: well formed, with an unknown sub-key,
\* with no bracket, and with `]` before `[`
PageKeys == {Bracketed(PAGE, SIZE), Bracketed(PAGE, NUMBER), Bracketed(PAGE, <<"a">>),
             PAGE, PAGE \o <<"]", "a", "[">>}
PageValues == {<<"0">>, <<"1">>, <<"2">>, <<"a">>, <<>>, <<"1", ",", "2">>}

\* raw keys that start with `fields`: well formed, two that extract to the
\* same sub-key, with `[` only, and with `]` before `[`
FieldsKeys == {Bracketed(FIELDS, <<"a">>), Bracketed(FIELDS, <<"b">>),
               Bracketed(FIELDS, <<"a">>) \o <<"b">>,
               FIELDS \o <<"[", "a">>, FIELDS \o <<"]", "a", "[">>}
FieldsValues == {<<"n">>, <<"i", "d", ",", "n">>, <<>>, <<"n", ",">>}

\* the dicts of 1..MaxParams items with distinct keys
Mappings(keys, values) ==
    {m \in UNION {[1..n -> [k : keys, v : values]] : n \in 1..MaxParams} :
        \A i, j \in 1..Len(m) : i # j => m[i].k # m[j].k}

PageConfigs ==
    {<<>>,
     ("ALLOW_DISABLE_PAGINATION" :> FALSE),
     ("ALLOW_DISABLE_PAGINATION" :> TRUE),
     ("MAX_PAGE_SIZE" :> 1),
     ("ALLOW_DISABLE_PAGINATION" :> FALSE) @@ ("MAX_PAGE_SIZE" :> 1),
     ("MAX_PAGE_SIZE" :> 0),
     ("ALLOW_DISABLE_PAGINATION" :> TRUE) @@ ("MAX_PAGE_SIZE" :> 2)}

\* no relationship route is requested
NoRequest == [path |-> <<>>, json |-> <<>>]

NoCall == [op |-> "init", arg |-> <<>>, exc |-> "none", param |-> <<>>, val |-> <<>>]

Called(op, arg, outcome) ==
    [op |-> op, arg |-> arg, exc |-> outcome.exc, param |-> outcome.param,
     val |-> outcome.val]

\* the relationship fields of the classes as registered: no nested schema
\* is substituted on any of them
Registered == [cls \in DOMAIN SchemaClasses |-> <<>>]

\* one order of iteration, for the calls that build no set
DeclarationOrder == <<ID, <<"n">>, <<"r">>, <<"s">>>>

Init ==
    /\ \/ qs \in PlainMappings /\ config \in PlainConfigs
       \/ qs \in Mappings(PageKeys, PageValues) /\ config \in PageConfigs
       \/ qs \in Mappings(FieldsKeys, FieldsValues) /\ config = <<>>
    /\ ret = NoCall
    /\ schema_kwargs = <<>>
    /\ hash_order = DeclarationOrder
    /\ class_fields = Registered
    /\ served = 0
    /\ threads = <<>>
    /\ request = NoRequest
    /\ data_layer = <<>>

CallGetKeyValues ==
    /\ \E name \in {PAGE, FIELDS} :
          ret' = Called("_get_key_values", name, get_key_values(qs, name))
    /\ UNCHANGED <<qs, config, schema_kwargs, hash_order, others>>

CallGrouping ==
    /\ ret' = Called("grouping", <<>>, grouping(qs))
    /\ UNCHANGED <<qs, config, schema_kwargs, hash_order, others>>

CallPagination ==
    /\ ret' = Called("pagination", <<>>, pagination(qs, config))
    /\ UNCHANGED <<qs, config, schema_kwargs, hash_order, others>>

CallFields ==
    /\ ret' = Called("fields", <<>>, fields(qs))
    /\ UNCHANGED <<qs, config, schema_kwargs, hash_order, others>>

CallSorting ==
    /\ ret' = Called("sorting", <<>>, sorting(qs))
    /\ UNCHANGED <<qs, config, schema_kwargs, hash_order, others>>

CallInclude ==
    /\ ret' = Called("include", <<>>, include(qs, config))
    /\ UNCHANGED <<qs, config, schema_kwargs, hash_order, others>>

Next ==
    \/ CallGetKeyValues
    \/ CallGrouping
    \/ CallPagination
    \/ CallFields
    \/ CallSorting
    \/ CallInclude

Spec == Init /\ [][Next]_vars

----------------------------------------------------------------------------
(* The projection requests: a resource whose schema is RootSchema serves a  *)
(* request with compute_schema(schema, get_schema_kwargs, qs, qs.include)   *)

IncludeChars == {"r", "s", "n", ".", ","}

IncludeItem(value) == [k |-> INCLUDE, v |-> value]
FieldsItem(sub, value) == [k |-> Bracketed(FIELDS, sub), v |-> value]

\* every raw include value, with no sparse fieldset, with one for type `b`,
\* and with a `fields` parameter that has no bracket
IncludeRequests ==
    {<<IncludeItem(value)>> \o more :
        value \in StringsUpTo(IncludeChars, MaxIncludeLen),
        more \in {<<>>, <<FieldsItem(<<"b">>, <<"n">>)>>, <<[k |-> FIELDS, v |-> <<>>]>>}}

SparseValues == {<<"n">>, ID, <<"i", "d", ",", "n">>, <<"r", ",", "x">>, <<>>}

\* every sparse fieldset of the two types, with the include values absent,
\* `r` and `r.s`
SparseRequests ==
    {inc \o fa \o fb :
        inc \in {<<>>, <<IncludeItem(<<"r">>)>>, <<IncludeItem(<<"r", ".", "s">>)>>},
        fa \in {<<>>} \cup {<<FieldsItem(<<"a">>, v)>> : v \in SparseValues},
        fb \in {<<>>} \cup {<<FieldsItem(<<"b">>, v)>> : v \in SparseValues}}

\* get_schema_kwargs as the resource class declares it
DeclaredKwargs ==
    {<<>>,
     ("only" :> <<>>),
     ("only" :> <<<<"n">>>>),
     ("only" :> <<ID, <<"n">>>>),
     ("only" :> <<<<"r">>, <<"n">>>>)}

\* the orders in which a process may iterate a set of field names
HashOrders ==
    {o \in [1..Cardinality(FieldNames) -> FieldNames] :
        \A i, j \in DOMAIN o : i # j => o[i] # o[j]}

\* every raw include value over the relationship names, under a configured
\* MAX_INCLUDE_DEPTH
DepthChars == {"r", "s", ".", ","}
DepthRequests == {<<IncludeItem(value)>> : value \in StringsUpTo(DepthChars, MaxIncludeLen)}
DepthConfigs == {("MAX_INCLUDE_DEPTH" :> n) : n \in 1..MaxDepthOption}

SchemaInit ==
    /\ \/ /\ qs \in IncludeRequests
          /\ schema_kwargs \in {<<>>, ("only" :> <<<<"n">>>>)}
          /\ hash_order = DeclarationOrder
          /\ config = <<>>
       \/ /\ qs \in SparseRequests
          /\ schema_kwargs \in DeclaredKwargs
          /\ hash_order \in HashOrders
          /\ config = <<>>
       \/ /\ qs \in DepthRequests
          /\ schema_kwargs = <<>>
          /\ hash_order = DeclarationOrder
          /\ config \in DepthConfigs
    /\ ret = NoCall
    /\ class_fields = Registered
    /\ served = 0
    /\ threads = <<>>
    /\ request = NoRequest
    /\ data_layer = <<>>

\* resource.py: compute_schema(self.get_schema(obj), get_schema_kwargs, qs,
\* qs.include); default_kwargs is the resource's own dict, so what the call
\* writes into it stays
ProjectRequest(q) ==
    LET included == include(q, config)
        computed == compute_schema(RootSchema, schema_kwargs, q, included.val,
                                   hash_order, class_fields)
    IN IF included.exc # "none"
       THEN /\ ret' = Called("include", <<>>, included)
            /\ UNCHANGED <<schema_kwargs, class_fields>>
       ELSE /\ ret' = Called("compute_schema", included.val, computed)
            /\ schema_kwargs' = computed.kwargs
            /\ class_fields' = computed.class_fields

Project ==
    /\ ProjectRequest(qs)
    /\ UNCHANGED <<qs, config, hash_order, served, threads, relationship_vars>>

SchemaNext == Project

SchemaSpec == SchemaInit /\ [][SchemaNext]_vars

----------------------------------------------------------------------------
(* A resource that serves one request after another: the schema classes and *)
(* the resource's get_schema_kwargs live as long as the process             *)

RegistryIncludes ==
    {<<>>, <<IncludeItem(<<"r">>)>>, <<IncludeItem(<<"s">>)>>,
     <<IncludeItem(<<"r", ".", "s">>)>>, <<IncludeItem(<<"s", ",", "s", ".", "r">>)>>,
     <<IncludeItem(<<"s", ".", "s">>)>>,
     <<IncludeItem(<<"n">>)>>, <<IncludeItem(<<"r", ",", "r", ".", "n">>)>>}

\* requests that succeed and that fail (at the root, in a nested level, and
\* in the `fields` parameter), with and without includes and fieldsets
RegistryRequests ==
    {inc \o more :
        inc \in RegistryIncludes,
        more \in {<<>>, <<FieldsItem(<<"a">>, <<"n">>)>>, <<FieldsItem(<<"b">>, <<"n">>)>>,
                  <<[k |-> FIELDS, v |-> <<>>]>>}}

RegistryKwargs == {<<>>, ("only" :> <<<<"n">>>>)}

RegistryInit ==
    /\ qs \in RegistryRequests
    /\ schema_kwargs \in RegistryKwargs
    /\ hash_order = DeclarationOrder
    /\ config = <<>>
    /\ ret = NoCall
    /\ class_fields = Registered
    /\ served = 0
    /\ threads = <<>>
    /\ request = NoRequest
    /\ data_layer = <<>>

\* the next request arrives and is served by ResourceDetail.get
Serve ==
    /\ \E q \in RegistryRequests :
          /\ qs' = q
          /\ ProjectRequest(q)
    /\ served' = IF served < MaxServed THEN served + 1 ELSE served
    /\ UNCHANGED <<config, hash_order, threads, relationship_vars>>

RegistryNext == Serve

RegistrySpec == RegistryInit /\ [][RegistryNext]_vars

----------------------------------------------------------------------------
(* Two requests of one resource class in two threads.  Both hand the dict   *)
(* that the class keeps as get_schema_kwargs to compute_schema; a thread    *)
(* may be preempted between any two statements of schema.py:55-81, and      *)
(* between the read and the write of an augmented assignment.  What follows *)
(* line 81 works on the thread's own objects.                               *)

Threads == {1, 2}

ConcurrentRequests ==
    {<<>>} \cup {<<IncludeItem(value)>> :
                    value \in {<<"r">>, <<"s">>, <<"r", ",", "s">>,
                               <<"s", ".", "r">>, <<"n">>}}

\* the variables that the threads leave alone
thread_others == <<qs, config, ret, hash_order, class_fields, served, relationship_vars>>

\* qs.include of a thread's request
thread_include(t) == include(threads[t].qs, config).val

ConcurrentInit ==
    /\ threads \in [Threads -> [qs : ConcurrentRequests, pc : {"reset"}, i : {1},
                                 include_data : {<<>>}, schema : {NoneValue}]]
    /\ schema_kwargs \in RegistryKwargs
    /\ qs = <<>>
    /\ config = <<>>
    /\ ret = NoCall
    /\ hash_order = DeclarationOrder
    /\ class_fields = Registered
    /\ served = 0
    /\ request = NoRequest
    /\ data_layer = <<>>

\* line 56: schema_kwargs['include_data'] = tuple()
ResetIncludeData(t) ==
    /\ threads[t].pc = "reset"
    /\ schema_kwargs' = SetItem(schema_kwargs, "include_data", <<>>)
    /\ threads' = [threads EXCEPT ![t].pc = "check"]
    /\ UNCHANGED thread_others

\* lines 61-68: the head of the loop and the validation of the next path
CheckInclude(t) ==
    /\ threads[t].pc = "check"
    /\ threads' = [threads EXCEPT ![t].pc =
          IF threads[t].i > Len(thread_include(t)) THEN "only"
          ELSE IF invalid_include(RootSchema,
                                  first_segment(thread_include(t)[threads[t].i]))
          THEN "raised"
          ELSE "read"]
    /\ UNCHANGED <<schema_kwargs, thread_others>>

\* line 70, the read of schema_kwargs['include_data'] += (field, )
ReadIncludeData(t) ==
    /\ threads[t].pc = "read"
    /\ threads' = [threads EXCEPT ![t].pc = "write",
                                  ![t].include_data = schema_kwargs["include_data"]]
    /\ UNCHANGED <<schema_kwargs, thread_others>>

\* line 70, the write of schema_kwargs['include_data'] += (field, )
WriteIncludeData(t) ==
    /\ threads[t].pc = "write"
    /\ schema_kwargs' =
          SetItem(schema_kwargs, "include_data",
                  Append(threads[t].include_data,
                         first_segment(thread_include(t)[threads[t].i])))
    /\ threads' = [threads EXCEPT ![t].pc = "check", ![t].i = @ + 1]
    /\ UNCHANGED thread_others

\* lines 77-78: id is appended to a given `only` that lacks it
EnsureId(t) ==
    /\ threads[t].pc = "only"
    /\ schema_kwargs' = only_with_id(schema_kwargs)
    /\ threads' = [threads EXCEPT ![t].pc = "build"]
    /\ UNCHANGED thread_others

\* line 81: schema_cls(**schema_kwargs) takes the include_data that the
\* shared dict holds at this moment
BuildSchema(t) ==
    /\ threads[t].pc = "build"
    /\ threads' = [threads EXCEPT ![t].pc = "done",
                                  ![t].schema = SomeValue(schema_kwargs["include_data"])]
    /\ UNCHANGED <<schema_kwargs, thread_others>>

ConcurrentNext ==
    \/ \E t \in Threads : ResetIncludeData(t)
    \/ \E t \in Threads : CheckInclude(t)
    \/ \E t \in Threads : ReadIncludeData(t)
    \/ \E t \in Threads : WriteIncludeData(t)
    \/ \E t \in Threads : EnsureId(t)
    \/ \E t \in Threads : BuildSchema(t)

ConcurrentSpec == ConcurrentInit /\ [][ConcurrentNext]_vars

----------------------------------------------------------------------------
(* One request of a relationship route of the resource *)

\* request.path: the routes of r, c, the attributes n and id, an unknown
\* name, and r with a trailing slash
RelationshipPaths ==
    {<<"/", "a", "/">> \o name : name \in {<<"r">>, <<"c">>, <<"n">>, ID, <<"x">>}}
        \cup {<<"/", "a", "/", "r", "/">>}

Identifiers ==
    {Identifier(FALSE, <<>>, FALSE), Identifier(FALSE, <<>>, TRUE),
     Identifier(TRUE, <<"b">>, FALSE), Identifier(TRUE, <<"b">>, TRUE),
     Identifier(TRUE, <<"c">>, TRUE)}

\* the elements of a `data` list: identifiers complete and incomplete, of
\* both related types, and a number
Elements ==
    {Identifier(TRUE, <<"b">>, TRUE), Identifier(TRUE, <<"c">>, TRUE),
     Identifier(FALSE, <<>>, TRUE), Identifier(TRUE, <<"b">>, FALSE), JsonNumber}

DataValues ==
    {JsonNull} \cup Identifiers
        \cup {JsonArray(items) : items \in UNION {[1..n -> Elements] : n \in 0..MaxElements}}

Bodies ==
    {Body("none", FALSE, JsonNull), Body("number", FALSE, JsonNull),
     Body("object", FALSE, JsonNull)}
        \cup {Body("object", TRUE, data) : data \in DataValues}

RelationshipInit ==
    /\ request \in [path : RelationshipPaths, json : Bodies]
    /\ data_layer = <<>>
    /\ ret = NoCall
    /\ qs = <<>>
    /\ config = <<>>
    /\ schema_kwargs = <<>>
    /\ hash_order = DeclarationOrder
    /\ class_fields = Registered
    /\ served = 0
    /\ threads = <<>>

\* the variables a relationship route leaves alone
relationship_others == <<qs, config, schema_kwargs, hash_order, class_fields, served,
                         threads, request>>

\* the resolver alone
GetRelationshipData ==
    /\ ret.op = "init"
    /\ ret' = Called("_get_relationship_data", <<>>, get_relationship_data(request.path))
    /\ UNCHANGED <<data_layer, relationship_others>>

\* one request is handled; the data layer answers updated or not
Post ==
    /\ ret.op = "init"
    /\ \E updated \in BOOLEAN :
          /\ ret' = Called("post", <<>>, post(request, updated))
          /\ data_layer' = data_layer \o post(request, updated).calls
    /\ UNCHANGED relationship_others

Patch ==
    /\ ret.op = "init"
    /\ \E updated \in BOOLEAN :
          /\ ret' = Called("patch", <<>>, patch(request, updated))
          /\ data_layer' = data_layer \o patch(request, updated).calls
    /\ UNCHANGED relationship_others

Delete ==
    /\ ret.op = "init"
    /\ \E updated \in BOOLEAN :
          /\ ret' = Called("delete", <<>>, delete(request, updated))
          /\ data_layer' = data_layer \o delete(request, updated).calls
    /\ UNCHANGED relationship_others

RelationshipNext ==
    \/ GetRelationshipData
    \/ Post
    \/ Patch
    \/ Delete

RelationshipSpec == RelationshipInit /\ [][RelationshipNext]_vars

----------------------------------------------------------------------------
(* What the claims speak of, stated apart from the code *)

\* the number of dots of a path
DotCount(path) == Cardinality({i \in 1..Len(path) : path[i] = "."})

\* the comma-separated paths of the raw include value (none when it is absent
\* or empty)
IncludePaths ==
    IF HasKey(qs, INCLUDE) /\ Lookup(qs, INCLUDE) # <<>>
    THEN Split(Lookup(qs, INCLUDE), ",")
    ELSE <<>>

\* a key with no `[` that is followed later by a `]`
MalformedKey(key) ==
    ~\E i, j \in 1..Len(key) : i < j /\ key[i] = "[" /\ key[j] = "]"

\* a key of the exact form name[sub] with no bracket inside sub
WellFormedKey(key, name) ==
    /\ StartsWith(key, name \o <<"[">>)
    /\ Len(key) >= Len(name) + 2
    /\ key[Len(key)] = "]"
    /\ \A i \in (Len(name) + 2)..(Len(key) - 1) : key[i] \notin {"[", "]"}

SubKey(key, name) == SubSeq(key, Len(name) + 2, Len(key) - 1)

\* the items of the raw mapping
Items == 1..Len(qs)

----------------------------------------------------------------------------
(* C1: include fails with InvalidInclude exactly when MAX_INCLUDE_DEPTH = N  *)
(* is set and some comma-separated path has more than N segments, and        *)
(* returns the paths in order otherwise.  The code does not: see C1_Claim.   *)

C1_TooDeep ==
    /\ "MAX_INCLUDE_DEPTH" \in DOMAIN config
    /\ \E i \in 1..Len(IncludePaths) :
          DotCount(IncludePaths[i]) + 1 > config["MAX_INCLUDE_DEPTH"]

\* C1 as claimed: include raises InvalidInclude exactly when a path has more
\* segments than MAX_INCLUDE_DEPTH, and returns the paths in order otherwise
C1_Claim ==
    ret.op = "include" =>
        IF C1_TooDeep THEN ret.exc = "InvalidInclude"
        ELSE ret.exc = "none" /\ ret.val = IncludePaths

----------------------------------------------------------------------------
(* C5: a page[number] or page[size] value that does not parse as an integer  *)
(* makes pagination fail with BadRequest, and no other kind of error         *)
(* escapes.  Stated in its weakest reading (which parameter the error names  *)
(* is left open); the code lets a TypeError escape: see C5_Claim.            *)

C5_BadValue(i) ==
    /\ qs[i].k \in {Bracketed(PAGE, NUMBER), Bracketed(PAGE, SIZE)}
    /\ (Contains(qs[i].v, ",") \/ ~IntSyntax(qs[i].v))

\* C5 as claimed: with a page[number] / page[size] value that is no integer,
\* pagination raises BadRequest and nothing else
C5_Claim ==
    (ret.op = "pagination" /\ \E i \in Items : C5_BadValue(i))
        => ret.exc = "BadRequest"

----------------------------------------------------------------------------
(* C6: a page parameter whose sub-key is neither number nor size makes       *)
(* pagination fail with BadRequest naming `page`, whatever else the mapping  *)
(* holds.  Stated in its weakest reading (the error may also name an         *)
(* earlier page parameter); see C6_Claim.                                    *)

C6_UnknownSubKey(i) ==
    /\ WellFormedKey(qs[i].k, PAGE)
    /\ SubKey(qs[i].k, PAGE) \notin {NUMBER, SIZE}

\* C6 as claimed: with a page sub-key other than number / size, pagination
\* raises BadRequest, naming `page` (or a parameter of the mapping)
C6_Claim ==
    (ret.op = "pagination" /\ \E i \in Items : C6_UnknownSubKey(i))
        => /\ ret.exc = "BadRequest"
           /\ \/ ret.param = PAGE
              \/ \E j \in Items : ret.param = qs[j].k

----------------------------------------------------------------------------
(* C7: a raw key that starts with the prefix and has no `[` followed later   *)
(* by a `]` makes _get_key_values fail with BadRequest naming a key of that  *)
(* kind; no result is returned.  See C7_Claim.                               *)

C7_Offending(i) == StartsWith(qs[i].k, ret.arg) /\ MalformedKey(qs[i].k)

\* C7 as claimed: with a key that starts with the prefix and has no `[`
\* followed later by `]`, _get_key_values raises BadRequest naming such a key
C7_Claim ==
    (ret.op = "_get_key_values" /\ \E i \in Items : C7_Offending(i))
        => /\ ret.exc = "BadRequest"
           /\ \E i \in Items : C7_Offending(i) /\ ret.param = qs[i].k

----------------------------------------------------------------------------
(* C8: a well-formed key name[key] with value v is mapped to the sequence of *)
(* the comma-separated parts of v when v has a comma and to the scalar v     *)
(* otherwise (the empty string too), and fields makes every value a          *)
(* sequence.                                                                 *)

C8_Parsed(v) ==
    IF Contains(v, ",") THEN ListValue(Split(v, ",")) ELSE StrValue(v)

C8_Normalized(v) ==
    IF Contains(v, ",") THEN ListValue(Split(v, ",")) ELSE ListValue(<<v>>)

\* a later parameter of the mapping is read as the same sub-key
C8_Overridden(i, name) ==
    \E j \in Items :
        /\ j > i
        /\ StartsWith(qs[j].k, name)
        /\ ~MalformedKey(qs[j].k)
        /\ item_key(qs[j].k) = SubKey(qs[i].k, name)

\* C8 as claimed: every well-formed key name[key] of the mapping is mapped to
\* the parse of its own value, whatever else the mapping holds
C8_Original ==
    /\ (ret.op = "_get_key_values" /\ ret.exc = "none") =>
          \A i \in Items : WellFormedKey(qs[i].k, ret.arg) =>
              /\ HasKey(ret.val, SubKey(qs[i].k, ret.arg))
              /\ Lookup(ret.val, SubKey(qs[i].k, ret.arg)) = C8_Parsed(qs[i].v)
    /\ (ret.op = "fields" /\ ret.exc = "none") =>
          \A i \in Items : WellFormedKey(qs[i].k, FIELDS) =>
              /\ HasKey(ret.val, SubKey(qs[i].k, FIELDS))
              /\ Lookup(ret.val, SubKey(qs[i].k, FIELDS)) = C8_Normalized(qs[i].v)

\* C8, amended: of every well-formed key that no later parameter of the
\* mapping overrides (the last parameter read as a sub-key wins); every value
\* that fields returns is a sequence
C8_KeyValues ==
    /\ (ret.op = "_get_key_values" /\ ret.exc = "none") =>
          \A i \in Items :
              (WellFormedKey(qs[i].k, ret.arg) /\ ~C8_Overridden(i, ret.arg)) =>
                  /\ HasKey(ret.val, SubKey(qs[i].k, ret.arg))
                  /\ Lookup(ret.val, SubKey(qs[i].k, ret.arg)) = C8_Parsed(qs[i].v)
    /\ (ret.op = "fields" /\ ret.exc = "none") =>
          /\ \A n \in 1..Len(ret.val) : ret.val[n].v.list
          /\ \A i \in Items :
                (WellFormedKey(qs[i].k, FIELDS) /\ ~C8_Overridden(i, FIELDS)) =>
                    /\ HasKey(ret.val, SubKey(qs[i].k, FIELDS))
                    /\ Lookup(ret.val, SubKey(qs[i].k, FIELDS)) = C8_Normalized(qs[i].v)

\* C8, witness: _get_key_values returned a scalar for an empty value and a
\* sequence for a value with a comma
C8_Witness ==
    /\ ret.op = "_get_key_values"
    /\ ret.exc = "none"
    /\ \E i, j \in Items :
          /\ WellFormedKey(qs[i].k, ret.arg) /\ qs[i].v = <<>>
          /\ WellFormedKey(qs[j].k, ret.arg) /\ Contains(qs[j].v, ",")
          /\ Lookup(ret.val, SubKey(qs[i].k, ret.arg)) = StrValue(<<>>)
          /\ Lookup(ret.val, SubKey(qs[j].k, ret.arg)).list

----------------------------------------------------------------------------
(* C9: sorting returns one entry per comma-separated token, in order; the    *)
(* order is desc exactly when the token starts with `-`, and the field is    *)
(* the token without that one leading `-`, later hyphens kept.  See C9_Claim.*)

C9_Entry(token) ==
    IF StartsWith(token, <<"-">>)
    THEN [field |-> Tail(token), order |-> "desc"]
    ELSE [field |-> token, order |-> "asc"]

\* C9 as claimed: sorting returns [] without `sort`, and for a `sort` value
\* one entry per token, the field being the token less one leading `-`
C9_Claim ==
    ret.op = "sorting" =>
        /\ ret.exc = "none"
        /\ ~HasKey(qs, SORT) => ret.val = <<>>
        /\ (HasKey(qs, SORT) /\ Lookup(qs, SORT) # <<>>) =>
              LET tokens == Split(Lookup(qs, SORT), ",")
              IN ret.val = [i \in 1..Len(tokens) |-> C9_Entry(tokens[i])]

----------------------------------------------------------------------------
(* C10: grouping returns None when `group` is absent, the comma-split        *)
(* sequence when it is present and not empty, and None again for an empty    *)
(* `group=`.  See C10_Claim.                                                 *)

\* C10 as claimed: grouping returns None without `group` and for an empty
\* `group=`, and the comma-split sequence otherwise
C10_Claim ==
    ret.op = "grouping" =>
        /\ ret.exc = "none"
        /\ IF HasKey(qs, GROUP) /\ Lookup(qs, GROUP) # <<>>
           THEN ret.val = SomeValue(Split(Lookup(qs, GROUP), ","))
           ELSE ret.val = NoneValue

----------------------------------------------------------------------------
(* What the projection claims speak of *)

\* a path's first dotted segment, and what remains after it
FirstSegment(path) ==
    IF Contains(path, ".") THEN SubSeq(path, 1, Index(path, ".")) ELSE path

Remainder(path) == SubSeq(path, Index(path, ".") + 2, Len(path))

\* the remaining suffixes of the paths that start with relationship f
Suffixes(paths, f) ==
    {Remainder(p) : p \in {q \in paths : FirstSegment(q) = f /\ Contains(q, ".")}}

\* some first segment names a field that is absent or is no relationship
BadSegment(cls, paths) ==
    \E p \in paths :
        \/ FirstSegment(p) \notin DeclaredNames(cls)
        \/ ~DeclaredField(cls, FirstSegment(p)).relationship

\* the same, at this level or at any level below it
RECURSIVE BadInclude(_, _)
BadInclude(cls, paths) ==
    \/ BadSegment(cls, paths)
    \/ \E p \in paths :
          BadInclude(DeclaredField(cls, FirstSegment(p)).schema,
                     Suffixes(paths, FirstSegment(p)))

\* a parameter that starts with `fields` and lacks a bracket
UnparsableFields(i) ==
    /\ StartsWith(qs[i].k, FIELDS)
    /\ ~(Contains(qs[i].k, "[") /\ Contains(qs[i].k, "]"))

\* the schemas nested in a projected schema, at every depth
RECURSIVE Nested(_)
Nested(schema) ==
    UNION {{schema.related[i].v} \cup Nested(schema.related[i].v) :
              i \in 1..Len(schema.related)}

Projected == ret.op = "compute_schema" /\ ret.exc = "none"

----------------------------------------------------------------------------
(* C2: an include path whose first segment, at any nesting level, names an  *)
(* absent field or a field that is no relationship is never ignored: the    *)
(* call fails with InvalidInclude and returns no schema.                    *)

\* C2 as claimed: a bad first segment at any level makes compute_schema
\* raise InvalidInclude
C2_Original ==
    (ret.op = "compute_schema" /\ BadInclude(RootSchema, SetOf(ret.arg)))
        => ret.exc = "InvalidInclude"

\* C2, amended: the call returns no schema; it fails with InvalidInclude,
\* except that a bad segment below the root level is preceded by the
\* BadRequest of a `fields` parameter that lacks a bracket
C2_BadIncludeFails ==
    (ret.op = "compute_schema" /\ BadInclude(RootSchema, SetOf(ret.arg)))
        => IF BadSegment(RootSchema, SetOf(ret.arg)) \/ ~\E i \in Items : UnparsableFields(i)
           THEN ret.exc = "InvalidInclude"
           ELSE /\ ret.exc = "BadRequest"
                /\ \E i \in Items : UnparsableFields(i) /\ ret.param = qs[i].k

\* C2, witness: of two paths with good first segments, one was refused with
\* InvalidInclude for a bad segment below the root level
C2_Witness ==
    /\ ret.op = "compute_schema"
    /\ ret.exc = "InvalidInclude"
    /\ ~BadSegment(RootSchema, SetOf(ret.arg))
    /\ BadInclude(RootSchema, SetOf(ret.arg))
    /\ Len(ret.arg) = 2

----------------------------------------------------------------------------
(* C3: under a sparse fieldset for the schema's type the visible fields are *)
(* (declared fields INTERSECT requested fields, INTERSECT the `only` of the *)
(* base options when one is given) UNION {id}.  (The call leaves id in the  *)
(* base `only`; with or without id in it the right-hand side is the same.)  *)

Requested(schema) ==
    SetOf(Lookup(fields(qs).val, SchemaClasses[schema.cls].type_).items)

HasFieldset(schema) ==
    /\ fields(qs).exc = "none"
    /\ HasKey(fields(qs).val, SchemaClasses[schema.cls].type_)

\* C3: under a sparse fieldset for its type, a projected schema (the root and
\* every nested one) shows (declared INTERSECT requested, INTERSECT the base
\* `only` when given) UNION {id}
C3_VisibleFields ==
    Projected =>
        /\ HasFieldset(ret.val) =>
              /\ ~ret.val.only.none
              /\ SetOf(ret.val.only.items) =
                    (IF "only" \in DOMAIN schema_kwargs
                     THEN DeclaredNames(ret.val.cls) \cap Requested(ret.val)
                              \cap SetOf(schema_kwargs["only"])
                     ELSE DeclaredNames(ret.val.cls) \cap Requested(ret.val))
                    \cup {ID}
        /\ \A schema \in Nested(ret.val) : HasFieldset(schema) =>
              /\ ~schema.only.none
              /\ SetOf(schema.only.items) =
                    (DeclaredNames(schema.cls) \cap Requested(schema)) \cup {ID}

\* C3, witness: the request asked for n only, the base options allow r and
\* n, and the schema shows n and id
C3_Witness ==
    /\ Projected
    /\ HasFieldset(ret.val)
    /\ ID \notin Requested(ret.val)
    /\ "only" \in DOMAIN schema_kwargs
    /\ <<"r">> \in SetOf(schema_kwargs["only"])
    /\ SetOf(ret.val.only.items) = {<<"n">>, ID}

----------------------------------------------------------------------------
(* C4: at every level the expanded relationships are exactly the first      *)
(* segments of the paths given to that level, and the nested projection of  *)
(* each gets exactly the remaining suffixes of the paths that start with it.*)

RECURSIVE Expanded(_, _)
Expanded(schema, paths) ==
    /\ SetOf(schema.include_data) = {FirstSegment(p) : p \in paths}
    /\ Keys(schema.related) = {FirstSegment(p) : p \in paths}
    /\ \A f \in {FirstSegment(p) : p \in paths} :
          Expanded(Lookup(schema.related, f), Suffixes(paths, f))

\* C4: the projected tree expands, at every level, exactly the first segments
\* of the paths given to that level, each with the suffixes of its paths
C4_ExpandedRelationships == Projected => Expanded(ret.val, SetOf(ret.arg))

\* C4, witness: include=s,s.r: s is expanded and r is not; inside s, r is expanded and s
\* is not; inside that r nothing is
C4_Witness ==
    /\ Projected
    /\ SetOf(ret.arg) = {<<"s">>, <<"s", ".", "r">>}
    /\ SetOf(ret.val.include_data) = {<<"s">>}
    /\ SetOf(Lookup(ret.val.related, <<"s">>).include_data) = {<<"r">>}
    /\ Lookup(Lookup(ret.val.related, <<"s">>).related, <<"r">>).include_data = <<>>

----------------------------------------------------------------------------
(* C11: the maximum page size.  With MAX_PAGE_SIZE = M and an integer        *)
(* page[size] = s, pagination is claimed to fail naming page[size] exactly   *)
(* when s > M.  Two cases escape that wording: with s = 0 and pagination     *)
(* disabling forbidden the error names page[size] although s <= M, and with  *)
(* another page parameter invalid the error of that parameter comes first.   *)

PageSizeItems == {i \in Items : qs[i].k = Bracketed(PAGE, SIZE)}

\* page[size] is present and its value is one integer
IntegerSize ==
    /\ PageSizeItems # {}
    /\ \A i \in PageSizeItems : IntSyntax(qs[i].v)

RequestedSize == IntValue(qs[CHOOSE i \in PageSizeItems : TRUE].v)

MaxPageSizeSet == "MAX_PAGE_SIZE" \in DOMAIN config

\* a page parameter other than page[size] that is rejected on its own: any
\* key but page[number], or a page[number] that is no integer
OtherPageParameterBad ==
    \E i \in Items :
        /\ StartsWith(qs[i].k, PAGE)
        /\ qs[i].k # Bracketed(PAGE, SIZE)
        /\ (qs[i].k # Bracketed(PAGE, NUMBER) \/ ~IntSyntax(qs[i].v))

\* page[size]=0 while ALLOW_DISABLE_PAGINATION is configured false
PaginationDisableRefused ==
    /\ IntegerSize
    /\ RequestedSize = 0
    /\ "ALLOW_DISABLE_PAGINATION" \in DOMAIN config
    /\ config["ALLOW_DISABLE_PAGINATION"] = FALSE

RejectsPageSize == ret.exc = "BadRequest" /\ ret.param = Bracketed(PAGE, SIZE)

----------------------------------------------------------------------------
(* C12: disabling pagination.  page[size]=0 is claimed to be refused naming  *)
(* page[size] exactly when ALLOW_DISABLE_PAGINATION is false and to succeed  *)
(* otherwise.  An invalid page parameter beside it is reported first, so a   *)
(* request with page[size]=0 can fail naming another parameter under every   *)
(* value of the option.                                                      *)

ZeroSize == IntegerSize /\ RequestedSize = 0

\* the request exceeds a configured maximum page size
AboveMaxPageSize ==
    MaxPageSizeSet /\ IntegerSize /\ RequestedSize > config["MAX_PAGE_SIZE"]

----------------------------------------------------------------------------
(* C13: under a sparse fieldset the visible fields are in the declaration    *)
(* order of the schema, whatever the order of the request and also when id   *)
(* was added again.  The code builds the tuple from a set, in the order the  *)
(* set iterates, and appends a missing id at the end: see C13_Claim.         *)

\* the names of the declared fields, in declaration order
DeclaredOrder(cls) == [i \in 1..Len(declared_fields(cls)) |-> declared_fields(cls)[i].name]

InDeclarationOrder(schema) ==
    schema.only.items =
        SelectSeq(DeclaredOrder(schema.cls), LAMBDA f : f \in SetOf(schema.only.items))

\* C13 as claimed: the `only` tuple of a schema projected under a sparse
\* fieldset for its type (the root and every nested one) lists its fields
\* in declaration order
C13_Claim ==
    Projected =>
        \A schema \in {ret.val} \cup Nested(ret.val) :
            HasFieldset(schema) => InDeclarationOrder(schema)

----------------------------------------------------------------------------
(* C14: projection never changes the registered schema classes.  After any   *)
(* sequence of requests no nested schema is substituted on a class's own     *)
(* relationship field, and a projection gives what it gives on a resource    *)
(* that has served nothing before.                                           *)

\* get_schema_kwargs as the resource class declared it (a call never adds or
\* removes the key `only`)
RegisteredKwargs ==
    CHOOSE kw \in RegistryKwargs :
        ("only" \in DOMAIN kw) <=> ("only" \in DOMAIN schema_kwargs)

\* the projection of the same request by a resource that served none before
FirstProjection ==
    compute_schema(RootSchema, RegisteredKwargs, qs, ret.arg, hash_order, Registered)

\* C14: after any sequence of projections, successful or failing, the
\* classes' relationship fields are as registered, and the outcome of the
\* last projection is the one of a first projection of the same request
C14_RegistryUntouched ==
    /\ class_fields = Registered
    /\ ret.op = "compute_schema" =>
          /\ ret.exc = FirstProjection.exc
          /\ ret.param = FirstProjection.param
          /\ ret.val = FirstProjection.val

\* C14, witness: after MaxServed requests a projection has substituted nested
\* schemas at two levels of its own instance
C14_Witness ==
    /\ served = MaxServed
    /\ Projected
    /\ HasKey(ret.val.related, <<"s">>)
    /\ HasKey(Lookup(ret.val.related, <<"s">>).related, <<"r">>)
    /\ class_fields = Registered

----------------------------------------------------------------------------
(* C15: a projection that fails with InvalidInclude leaves the caller's      *)
(* base options (the resource's get_schema_kwargs) with the keys and values  *)
(* they had before the call.  The code writes include_data, and id into      *)
(* `only`, before it raises: see C15_Claim.                                  *)

\* C15 as claimed: a step in which compute_schema raises InvalidInclude, at
\* the root or in a nested level, does not change the base options
C15_Claim ==
    [][(ret'.op = "compute_schema" /\ ret'.exc = "InvalidInclude")
          => schema_kwargs' = schema_kwargs]_vars

----------------------------------------------------------------------------
(* C16: two requests of one resource class that run compute_schema at the    *)
(* same time each build their root schema with the first segments of their   *)
(* own include paths.  Both write include_data into the one dict the class   *)
(* keeps, so a thread can build with the other's entries: see C16_Claim.     *)

\* the first segments of the include paths of a thread's request
OwnFirstSegments(t) ==
    {FirstSegment(thread_include(t)[i]) : i \in 1..Len(thread_include(t))}

\* C16 as claimed: under every interleaving a thread that has built its root
\* schema built it with the first segments of its own include paths, no more
\* and no less
C16_Claim ==
    \A t, u \in DOMAIN threads :
        (threads[t].pc = "done" /\ thread_include(t) # thread_include(u))
            => SetOf(threads[t].schema.items) = OwnFirstSegments(t)

----------------------------------------------------------------------------
(* C17: with MAX_INCLUDE_DEPTH = N, the projection of an include value that  *)
(* qs.include accepted nests at most N levels of relationship expansion.     *)
(* It fails through C1: include accepts paths of any depth when N >= 2, and  *)
(* compute_schema follows them as deep as they go.  See C17_Claim.           *)

Max(S) == CHOOSE x \in S : \A y \in S : y <= x

\* the levels of relationship expansion below a projected schema
RECURSIVE TreeDepth(_)
TreeDepth(schema) ==
    IF schema.related = <<>> THEN 0
    ELSE 1 + Max({TreeDepth(schema.related[i].v) : i \in 1..Len(schema.related)})

\* C17 as claimed: under MAX_INCLUDE_DEPTH = N the projected schema tree of
\* an accepted include value has depth at most N
C17_Claim ==
    (Projected /\ "MAX_INCLUDE_DEPTH" \in DOMAIN config)
        => TreeDepth(ret.val) <= config["MAX_INCLUDE_DEPTH"]

----------------------------------------------------------------------------
(* C18: the relationship resolver fails with RelationNotFound exactly when   *)
(* the requested name is not declared or is declared and no relationship;    *)
(* otherwise it returns the field's related type and id field unchanged and, *)
(* as storage name, the field's `attribute` when set and the name otherwise. *)

\* the requested relationship name: what follows the last `/` of the path
RequestedName ==
    LET path == request.path
        last == CHOOSE i \in 1..Len(path) :
                    path[i] = "/" /\ \A j \in (i + 1)..Len(path) : path[j] # "/"
    IN SubSeq(path, last + 1, Len(path))

\* the declared relationship fields with the requested name
RequestedRelationships ==
    {i \in 1..Len(ResourceSchema.declared) :
        /\ ResourceSchema.declared[i].name = RequestedName
        /\ ResourceSchema.declared[i].relationship}

\* C18: the resolver raises RelationNotFound exactly when the requested name
\* is no declared relationship (and so do the handlers that start with it);
\* otherwise it returns the name, the field's type_ and id_field, and the
\* field's attribute when one is set, else the name
C18_Resolver ==
    /\ ret.op \in {"_get_relationship_data", "post", "patch", "delete"}
          => (ret.exc = "RelationNotFound" <=> RequestedRelationships = {})
    /\ (ret.op = "_get_relationship_data" /\ RequestedRelationships # {})
          => \E i \in RequestedRelationships :
                LET f == ResourceSchema.declared[i]
                IN /\ ret.exc = "none"
                   /\ ret.val.relationship_field = RequestedName
                   /\ ret.val.related_type_ = f.type_
                   /\ ret.val.related_id_field = f.id_field
                   /\ ret.val.model_relationship_field =
                         (IF f.attribute.none THEN RequestedName ELSE f.attribute.items)

\* C18, witness: the relationship c, stored as x, was resolved
C18_Witness ==
    /\ ret.op = "_get_relationship_data"
    /\ ret.exc = "none"
    /\ RequestedName = <<"c">>
    /\ ret.val.model_relationship_field = <<"x">>
    /\ ret.val.related_type_ = <<"c">>
    /\ ret.val.related_id_field = <<"k">>

----------------------------------------------------------------------------
(* C19: post, patch and delete of a relationship call the before_* hook and  *)
(* the data layer only after the name was resolved and the payload passed    *)
(* validation; an invalid payload is refused with BadRequest or InvalidType  *)
(* and nothing is written; after the call the answer is 204 with an empty    *)
(* body when nothing was updated and 200 with a meta message otherwise.      *)
(* Nothing is ever written for an invalid payload, but the refusal can be a  *)
(* TypeError: see C19_Claim.                                                 *)

RelationshipHandlers == {"post", "patch", "delete"}

RelatedType ==
    ResourceSchema.declared[CHOOSE i \in RequestedRelationships : TRUE].type_

\* the body has no `data` node
NoDataNode ==
    \/ request.json.kind = "none"
    \/ request.json.kind = "object" /\ ~request.json.has_data

\* an object that lacks type or id, or whose type is not the related type
BadIdentifier(v) ==
    /\ v.kind = "object"
    /\ (~v.has_type \/ ~v.has_id \/ v.type_ # RelatedType)

\* the payloads the claim speaks of
InvalidPayload ==
    \/ NoDataNode
    \/ /\ request.json.kind = "object"
       /\ request.json.has_data
       /\ \/ BadIdentifier(request.json.data)
          \/ /\ request.json.data.kind = "array"
             /\ \E i \in 1..Len(request.json.data.items) :
                   BadIdentifier(request.json.data.items[i])

\* the hook and the data layer were called, in this order, with the storage
\* name and the id field of the resolved relationship
CalledDataLayer ==
    /\ Len(data_layer) = 2
    /\ \/ /\ ret.op = "post"
          /\ data_layer[1].op = "before_post"
          /\ data_layer[2].op = "create_relationship"
       \/ /\ ret.op = "patch"
          /\ data_layer[1].op = "before_patch"
          /\ data_layer[2].op = "update_relationship"
       \/ /\ ret.op = "delete"
          /\ data_layer[1].op = "before_delete"
          /\ data_layer[2].op = "delete_relationship"

\* the answer follows what the data layer reported
AnswersUpdated ==
    /\ ret.exc = "none"
    /\ IF data_layer[2].updated
       THEN ret.val.status_code = 200 /\ ret.val.result # ""
       ELSE ret.val.status_code = 204 /\ ret.val.result = ""

\* what holds of the handlers: the hook and the data layer are called only
\* for a resolved relationship and a payload that is not invalid, and then
\* the answer follows `updated`; otherwise nothing is called
WrittenOnlyWhenValid ==
    ret.op \in RelationshipHandlers =>
        IF data_layer # <<>>
        THEN /\ RequestedRelationships # {}
             /\ ~InvalidPayload
             /\ CalledDataLayer
             /\ AnswersUpdated
        ELSE ret.exc # "none"

\* C19 as claimed: the hook and the data layer are called only after the
\* resolution and the validation, an invalid payload of a resolved
\* relationship is refused with BadRequest or InvalidType and nothing is
\* written, and the answer is 204 and empty or 200 with a message
C19_Claim ==
    /\ WrittenOnlyWhenValid
    /\ (ret.op \in RelationshipHandlers /\ RequestedRelationships # {} /\ InvalidPayload)
          => /\ ret.exc \in {"BadRequest", "InvalidType"}
             /\ data_layer = <<>>

============================================================================
